---- MODULE Spec2Model ----
(***************************************************************************)
(* FastShop: the order service (order-service/src/index.js) together with  *)
(* the product catalog it looks products up in (product-service/src/       *)
(* index.js).  Money is in cents (DECIMAL(10,2) columns).                  *)
(*                                                                         *)
(* State: the two tables of the order database (orders, order_items) with  *)
(* the orders_id_seq sequence, the products table of the catalog with its  *)
(* sequence, the database clock, the POST /api/orders request in flight    *)
(* (one step per await of the handler) and the last PUT                    *)
(* /api/orders/:id/status request (one UPDATE statement, atomic).          *)
(***************************************************************************)
EXTENDS Integers, Sequences, FiniteSets, TLC

\* ---- bounds of the model -------------------------------------------------
MaxProducts == 1      \* products ever created in the catalog
MaxItems == 2         \* items in one creation request
MaxCreates == 1       \* creation requests handled
MaxPuts == 1          \* status-update requests handled beside a creation (Spec)
MaxStatusPuts == 2    \* status-update requests handled (SpecStatus)
MaxClock == 1         \* ticks of the database clock
MaxReads == 1         \* read requests handled (SpecRead, SpecSnapshot)
MaxRacers == 2        \* status-update requests in flight at once (SpecRace)
MaxQueries == 2       \* reads and status updates asking the pool (SpecPool)
MaxBoots == 3         \* starts of the product service (SpecBoot)
MaxHealthChecks == 2  \* GET /health requests of the gateway (SpecGateway)

\* new Pool({ max: 20 }) of the order service
PoolMax == 20

\* ---- values requests and the catalog are drawn from ----------------------
Names == {"Wireless Mouse"}
Prices == {2999, 4999}
Stocks == {1}
Quantities == {1, 2}
CustomerNames == {"", "Alice"}
CustomerEmails == {"", "alice@example.com"}

\* product_id of a requested item is interpolated into the lookup URL
\* (order-service index.js:216): a number addresses GET /api/products/:id, a
\* path such as "../../health" addresses another route of the catalog.
ProductRef(n) == [route |-> "product", n |-> n]
HealthRef == [route |-> "health", n |-> 0]
RequestRefs == {ProductRef(n) : n \in 1..(MaxProducts + 1)} \cup {HealthRef}

RequestItems == [product_id : RequestRefs, quantity : Quantities]

RECURSIVE SeqsUpTo(_, _)
SeqsUpTo(S, n) ==
  IF n = 0 THEN {<<>>}
  ELSE LET shorter == SeqsUpTo(S, n - 1)
       IN  shorter \cup {Append(s, x) : s \in {t \in shorter : Len(t) = n - 1}, x \in S}

\* req.body of POST /api/orders; items_given = FALSE is a body without items
Bodies ==
  { [customer_name |-> cn, customer_email |-> ce, items_given |-> TRUE, items |-> its] :
      cn \in CustomerNames, ce \in CustomerEmails, its \in SeqsUpTo(RequestItems, MaxItems) }
  \cup
  { [customer_name |-> cn, customer_email |-> ce, items_given |-> FALSE, items |-> <<>>] :
      cn \in CustomerNames, ce \in CustomerEmails }

\* req.body of the creations that run beside reads: complete, one product
ReadBodies ==
  { b \in Bodies :
      /\ b.customer_name = "Alice" /\ b.customer_email = "alice@example.com"
      /\ Len(b.items) >= 1
      /\ \A k \in 1..Len(b.items) :
            b.items[k].product_id = ProductRef(1) /\ b.items[k].quantity = 1 }

\* req.body of creations whose one item carries any integer as its quantity
AnyQuantities == {-1, 0, 1}
QuantityBodies ==
  { [customer_name |-> "Alice", customer_email |-> "alice@example.com", items_given |-> TRUE,
     items |-> <<[product_id |-> ProductRef(1), quantity |-> q]>>] : q \in AnyQuantities }

\* req.query of GET /api/orders; "" is an absent parameter
StatusFilters == {"", "pending", "shipped"}
EmailFilters == {"", "alice@example.com", "jane.smith@example.com"}

\* names a product is renamed to
NewNames == {"Wireless Mouse", "Ergonomic Mouse"}

\* req.body.status of status updates sent at once
RaceStatuses == {"processing", "cancelled", "refunded"}

validStatuses == <<"pending", "processing", "shipped", "delivered", "cancelled">>
\* req.body.status of a status update: "" is a missing status
PutStatuses == {validStatuses[i] : i \in 1..Len(validStatuses)} \cup {"", "refunded"}

VARIABLES
  products,      \* catalog: products table, id -> row
  productSeq,    \* catalog: next value of products_id_seq
  orders,        \* committed rows of orders, id -> row
  order_items,   \* committed rows of order_items, in insertion order
  orderSeq,      \* next value of orders_id_seq
  now,           \* CURRENT_TIMESTAMP of the order database
  cr,            \* the POST /api/orders request in flight
  nCreates,      \* creation requests started
  lastPut,       \* the last PUT /api/orders/:id/status request and its response
  rd,            \* the GET /api/orders or GET /api/orders/:id request in flight
  pu,            \* status-update requests in flight at once, one per caller
  pool,          \* the pg Pool of the order service
  boot,          \* starts of the product service
  services,      \* what stands behind SERVICES.product and SERVICES.order
  gw             \* the GET /health request of the gateway

vars == <<products, productSeq, orders, order_items, orderSeq, now, cr, nCreates, lastPut, rd, pu, pool, boot, services, gw>>

\* ---- order-service initDatabase: sample data ------------------------------
SampleOrders ==
  (1 :> [id |-> 1, customer_name |-> "John Doe", customer_email |-> "john.doe@example.com",
         status |-> "delivered", total_amount |-> 132998, created_at |-> 0, updated_at |-> 0])
  @@
  (2 :> [id |-> 2, customer_name |-> "Jane Smith", customer_email |-> "jane.smith@example.com",
         status |-> "shipped", total_amount |-> 8999, created_at |-> 0, updated_at |-> 0])
  @@
  (3 :> [id |-> 3, customer_name |-> "Bob Johnson", customer_email |-> "bob.johnson@example.com",
         status |-> "pending", total_amount |-> 44998, created_at |-> 0, updated_at |-> 0])

SampleOrderItems ==
  << [order_id |-> 1, product_id |-> 1, product_name |-> "Laptop Pro 15", quantity |-> 1, price |-> 129999],
     [order_id |-> 1, product_id |-> 2, product_name |-> "Wireless Mouse", quantity |-> 1, price |-> 2999],
     [order_id |-> 2, product_id |-> 4, product_name |-> "Mechanical Keyboard", quantity |-> 1, price |-> 8999],
     [order_id |-> 3, product_id |-> 3, product_name |-> "USB-C Hub", quantity |-> 2, price |-> 4999],
     [order_id |-> 3, product_id |-> 5, product_name |-> "4K Monitor 27\"", quantity |-> 1, price |-> 39999] >>

\* ---- the request in flight -------------------------------------------------
NoResponse == [code |-> 0, error |-> "", data |-> <<>>]

IdleRequest ==
  [ pc |-> "idle",
    body |-> [customer_name |-> "", customer_email |-> "", items_given |-> FALSE, items |-> <<>>],
    client |-> "none",          \* pooled connection: none, held, released
    tx |-> "none",              \* its transaction: none, open, committed, rolledback
    txStart |-> 0,              \* CURRENT_TIMESTAMP inside the transaction
    txOrder |-> <<>>,           \* orders row written, not yet committed
    txItems |-> <<>>,           \* order_items rows written, not yet committed
    idx |-> 0,                  \* position of the for-loops
    total |-> 0,
    validatedItems |-> <<>>,
    failedRef |-> HealthRef,    \* item.product_id of the lookup that threw
    order |-> <<>>,             \* orderResult.rows[0]
    res |-> NoResponse,
    lookups |-> 0,              \* catalog lookups issued by this request
    quoted |-> <<>>,            \* the prices the catalog answered, in lookup order
    answers |-> <<>>,           \* the HTTP status each lookup ended with (0: none)
    dbError |-> FALSE,          \* a call to the store failed during this request
    pre |-> [orders |-> {}, nitems |-> 0] ]  \* the tables when the request arrived

\* a read request: the rows of its first SELECT, the position of its loop, the
\* orders it has put together so far, and its response code
IdleRead ==
  [ pc |-> "idle",              \* idle, items, done
    kind |-> "none",            \* list: GET /api/orders, get: GET /api/orders/:id
    id |-> 0,                   \* req.params.id
    status |-> "",              \* req.query.status, "" when absent
    email |-> "",               \* req.query.customer_email, "" when absent
    rows |-> <<>>,              \* result.rows of the SELECT over orders
    idx |-> 0,
    out |-> <<>>,               \* the orders with their items attached
    code |-> 0,
    n |-> 0,                    \* read requests started
    after |-> <<>> ]            \* the 201 a creation had been answered by then

\* one status-update request of several in flight: `before` and `at` count the
\* UPDATE statements the store had run when it arrived and when its own ran
IdleRacer ==
  [pc |-> "idle", id |-> 0, status |-> "", code |-> 0, data |-> <<>>, before |-> 0, at |-> 0]

\* held: clients checked out by creation requests between pool.connect() and
\* client.release(); last: how the last pool.query of another request ended
IdlePool == [held |-> 0, refused |-> 0, last |-> "none", n |-> 0]

\* n: starts; seen: the products table when initDatabase ran last
NoBoot == [n |-> 0, seen |-> << >>, inserted |-> FALSE]

\* the gateway's health request: the outcome of each probe and the answer
IdleHealth ==
  [pc |-> "idle", product |-> "", order |-> "", code |-> 0, probes |-> <<>>, n |-> 0]

\* n: requests handled; code, data: the response; stmts: statements sent to the store
NoPut == [n |-> 0, code |-> 0, stmts |-> 0, data |-> <<>>]

Init ==
  /\ products = << >>
  /\ productSeq = 1
  /\ orders = SampleOrders
  /\ order_items = SampleOrderItems
  /\ orderSeq = 4
  /\ now = 0
  /\ cr = IdleRequest
  /\ nCreates = 0
  /\ lastPut = NoPut
  /\ rd = IdleRead
  /\ pu = [p \in 1..MaxRacers |-> IdleRacer]
  /\ pool = IdlePool
  /\ boot = NoBoot
  /\ services = [product |-> "up", order |-> "up"]
  /\ gw = IdleHealth

\* ---- database clock --------------------------------------------------------
Tick ==
  /\ now < MaxClock
  /\ now' = now + 1
  /\ UNCHANGED <<products, productSeq, orders, order_items, orderSeq, cr, nCreates, lastPut, rd, pu, pool, boot, services, gw>>

\* ---- catalog (product-service) ---------------------------------------------
NullName == "NULL"
NullPrice == -1

\* POST /api/products: `!name || !price` is a 400, otherwise one INSERT
CreateProduct(name, price, stock) ==
  /\ productSeq <= MaxProducts
  /\ IF name = "" \/ price = 0
       THEN UNCHANGED <<products, productSeq>>
       ELSE /\ products' = products @@
                 (productSeq :> [id |-> productSeq, name |-> name, price |-> price, stock |-> stock])
            /\ productSeq' = productSeq + 1
  /\ UNCHANGED <<orders, order_items, orderSeq, now, cr, nCreates, lastPut, rd, pu, pool, boot, services, gw>>

\* PUT /api/products/:id: COALESCE($n, column) keeps the column when $n is null
UpdateProduct(id, name, price) ==
  /\ IF id \in DOMAIN products
       THEN products' = [products EXCEPT
              ![id].name = IF name = NullName THEN @ ELSE name,
              ![id].price = IF price = NullPrice THEN @ ELSE price]
       ELSE UNCHANGED products
  /\ UNCHANGED <<productSeq, orders, order_items, orderSeq, now, cr, nCreates, lastPut, rd, pu, pool, boot, services, gw>>

\* DELETE /api/products/:id
DeleteProduct(id) ==
  /\ products' = [i \in DOMAIN products \ {id} |-> products[i]]
  /\ UNCHANGED <<productSeq, orders, order_items, orderSeq, now, cr, nCreates, lastPut, rd, pu, pool, boot, services, gw>>

\* What axios.get(`${PRODUCT_SERVICE_URL}/api/products/${item.product_id}`) can
\* receive.  status 0: no HTTP response (connection refused or reset).
\* GET /api/products/:id answers 200 {success: true, data: row}, 404 or 500
\* {success: false}.  A product_id that leaves /api/products/ reaches GET /health
\* (200, a body without `success`) when the HTTP client normalises dot segments,
\* and no route (404) when it does not.
NoAnswer == [status |-> 0, success |-> FALSE, data |-> <<>>]
HttpError(status) == [status |-> status, success |-> FALSE, data |-> <<>>]

LookupAnswers(ref) ==
  IF ref.route = "product"
    THEN IF ref.n \in DOMAIN products
           THEN {[status |-> 200, success |-> TRUE, data |-> <<products[ref.n]>>],
                 HttpError(500), NoAnswer}
           ELSE {HttpError(404), HttpError(500), NoAnswer}
    ELSE {[status |-> 200, success |-> FALSE, data |-> <<>>], HttpError(404), NoAnswer}

\* ---- POST /api/orders ------------------------------------------------------
\* mutant: the email is not required
MissingFields_NoEmail(body) ==
  \/ body.customer_name = ""
  \/ ~body.items_given
  \/ Len(body.items) = 0

\* the validation of index.js:200
MissingFields(body) ==
  \/ body.customer_name = ""
  \/ body.customer_email = ""
  \/ ~body.items_given
  \/ Len(body.items) = 0

\* mutant: a 4xx answer is handed to the caller like a 2xx one
Throws_ServerErrorsOnly(answer) == answer.status = 0 \/ answer.status >= 500

\* axios rejects the promise for a network error and for a status outside 2xx
Throws(answer) == ~(answer.status >= 200 /\ answer.status < 300)

\* mutant: the quantity is left out of the line total
ItemTotal_UnitPrice(product, item) == product.price

\* index.js:221
ItemTotal(product, item) == product.price * item.quantity

\* index.js:224-229
ValidatedItem(product, item) ==
  [product_id |-> product.id, product_name |-> product.name,
   quantity |-> item.quantity, price |-> product.price]

\* mutant: the order is inserted in another status
NewOrderRow_Processing(id, body, total, ts) ==
  [id |-> id, customer_name |-> body.customer_name, customer_email |-> body.customer_email,
   status |-> "processing", total_amount |-> total, created_at |-> ts, updated_at |-> ts]

\* index.js:241-245: the INSERT INTO orders, RETURNING *
NewOrderRow(id, body, total, ts) ==
  [id |-> id, customer_name |-> body.customer_name, customer_email |-> body.customer_email,
   status |-> "pending", total_amount |-> total, created_at |-> ts, updated_at |-> ts]

\* index.js:251-255: the INSERT INTO order_items
NewItemRow(order, item) ==
  [order_id |-> order.id, product_id |-> item.product_id, product_name |-> item.product_name,
   quantity |-> item.quantity, price |-> item.price]

\* mutant: the rows are joined with the catalog and carry its current name and
\* price where the product still exists
SelectItems_Refreshed(order_id) ==
  LET rows == SelectSeq(order_items, LAMBDA r : r.order_id = order_id)
  IN  [k \in 1..Len(rows) |->
         IF rows[k].product_id \in DOMAIN products
           THEN [rows[k] EXCEPT !.product_name = products[rows[k].product_id].name,
                                !.price = products[rows[k].product_id].price]
           ELSE rows[k]]

\* SELECT * FROM order_items WHERE order_id = $1, over the committed rows
SelectItems(order_id) == SelectSeq(order_items, LAMBDA r : r.order_id = order_id)

Response(code, error, data) == [code |-> code, error |-> error, data |-> data]

Snapshot == [orders |-> DOMAIN orders, nitems |-> Len(order_items)]

Others == <<products, productSeq, now, lastPut, rd, pu, pool, boot, services, gw>>

\* the request arrives: pool.connect(), then the validation
Connect(body, ok) ==
  /\ cr.pc \in {"idle", "done"}
  /\ nCreates < MaxCreates
  /\ nCreates' = nCreates + 1
  /\ cr' = IF ~ok
             THEN [IdleRequest EXCEPT !.pc = "done", !.body = body, !.pre = Snapshot,
                     !.dbError = TRUE]
           ELSE IF MissingFields(body)
             THEN [IdleRequest EXCEPT !.pc = "done", !.body = body, !.pre = Snapshot,
                     !.client = "released",
                     !.res = Response(400, "Customer name, email, and items are required", <<>>)]
             ELSE [IdleRequest EXCEPT !.pc = "begin", !.body = body, !.pre = Snapshot,
                     !.client = "held"]
  /\ UNCHANGED <<orders, order_items, orderSeq>>
  /\ UNCHANGED Others

\* client.query('BEGIN')
Begin(ok) ==
  /\ cr.pc = "begin"
  /\ cr' = IF ok
             THEN [cr EXCEPT !.pc = "lookup", !.tx = "open", !.txStart = now, !.idx = 1]
             ELSE [cr EXCEPT !.pc = "catch", !.dbError = TRUE]
  /\ UNCHANGED <<orders, order_items, orderSeq, nCreates>>
  /\ UNCHANGED Others

\* mutant: the message names the first item of the request
FailedItem_First(items, idx) == items[1].product_id

\* index.js:235: `item` is the loop variable when the lookup throws
FailedItem(items, idx) == items[idx].product_id

\* mutant: a resolved item takes its quantity out of the product's stock
Lookup_Reserves(answer) ==
  /\ cr.pc = "lookup"
  /\ LET item == cr.body.items[cr.idx]
         next == IF cr.idx = Len(cr.body.items) THEN "insertOrder" ELSE "lookup"
     IN  /\ answer \in LookupAnswers(item.product_id)
         /\ cr' = IF Throws(answer)
                    THEN [cr EXCEPT !.pc = "reject", !.lookups = @ + 1,
                            !.failedRef = FailedItem(cr.body.items, cr.idx),
                            !.answers = Append(@, answer.status)]
                  ELSE IF answer.success
                    THEN [cr EXCEPT !.pc = next, !.idx = @ + 1, !.lookups = @ + 1,
                            !.answers = Append(@, answer.status),
                            !.quoted = Append(@, answer.data[1].price),
                            !.total = @ + ItemTotal(answer.data[1], item),
                            !.validatedItems = Append(@, ValidatedItem(answer.data[1], item))]
                    ELSE [cr EXCEPT !.pc = next, !.idx = @ + 1, !.lookups = @ + 1,
                            !.answers = Append(@, answer.status)]
         /\ products' = IF ~Throws(answer) /\ answer.success
                          THEN [products EXCEPT ![answer.data[1].id].stock = @ - item.quantity]
                          ELSE products
  /\ UNCHANGED <<orders, order_items, orderSeq, nCreates>>
  /\ UNCHANGED <<productSeq, now, lastPut, rd, pu, pool, boot, services, gw>>

\* one iteration of `for (let item of items)`: the lookup and what follows it
Lookup(answer) ==
  /\ cr.pc = "lookup"
  /\ LET item == cr.body.items[cr.idx]
         next == IF cr.idx = Len(cr.body.items) THEN "insertOrder" ELSE "lookup"
     IN  /\ answer \in LookupAnswers(item.product_id)
         /\ cr' = IF Throws(answer)
                    THEN [cr EXCEPT !.pc = "reject", !.lookups = @ + 1,
                            !.failedRef = FailedItem(cr.body.items, cr.idx),
                            !.answers = Append(@, answer.status)]
                  ELSE IF answer.success
                    THEN [cr EXCEPT !.pc = next, !.idx = @ + 1, !.lookups = @ + 1,
                            !.answers = Append(@, answer.status),
                            !.quoted = Append(@, answer.data[1].price),
                            !.total = @ + ItemTotal(answer.data[1], item),
                            !.validatedItems = Append(@, ValidatedItem(answer.data[1], item))]
                    ELSE [cr EXCEPT !.pc = next, !.idx = @ + 1, !.lookups = @ + 1,
                            !.answers = Append(@, answer.status)]
  /\ UNCHANGED <<orders, order_items, orderSeq, nCreates>>
  /\ UNCHANGED Others

\* index.js:215-217: axios.get is called without a timeout option, so a catalog
\* that accepts the request and never answers leaves the await pending: the
\* handler has no other timer and no step follows
LookupHangs ==
  /\ cr.pc = "lookup"
  /\ cr' = [cr EXCEPT !.pc = "awaitCatalog", !.lookups = @ + 1]
  /\ UNCHANGED <<orders, order_items, orderSeq, nCreates>>
  /\ UNCHANGED Others

\* the inner catch: ROLLBACK, then the 400 naming item.product_id; a ROLLBACK
\* that throws leaves the inner catch for the outer one
Reject(ok) ==
  /\ cr.pc = "reject"
  /\ cr' = IF ok
             THEN [cr EXCEPT !.pc = "done", !.tx = "rolledback", !.txOrder = <<>>, !.txItems = <<>>,
                     !.client = "released",
                     !.res = Response(400, "Product not found", <<cr.failedRef>>)]
             ELSE [cr EXCEPT !.pc = "catch", !.dbError = TRUE]
  /\ UNCHANGED <<orders, order_items, orderSeq, nCreates>>
  /\ UNCHANGED Others

\* mutant: the orders row is written outside the transaction and is visible
\* to other connections at once
InsertOrder_Autocommit(ok) ==
  /\ cr.pc = "insertOrder"
  /\ IF ok
       THEN LET row == NewOrderRow(orderSeq, cr.body, cr.total, cr.txStart)
            IN  /\ cr' = [cr EXCEPT !.pc = IF Len(cr.validatedItems) = 0 THEN "commit" ELSE "insertItems",
                                    !.txOrder = <<row>>, !.order = <<row>>, !.idx = 1]
                /\ orderSeq' = orderSeq + 1
                /\ orders' = orders @@ (orderSeq :> row)
       ELSE /\ cr' = [cr EXCEPT !.pc = "catch", !.dbError = TRUE]
            /\ UNCHANGED <<orders, orderSeq>>
  /\ UNCHANGED <<order_items, nCreates>>
  /\ UNCHANGED Others

\* INSERT INTO orders ... RETURNING *
InsertOrder(ok) ==
  /\ cr.pc = "insertOrder"
  /\ IF ok
       THEN LET row == NewOrderRow(orderSeq, cr.body, cr.total, cr.txStart)
            IN  /\ cr' = [cr EXCEPT !.pc = IF Len(cr.validatedItems) = 0 THEN "commit" ELSE "insertItems",
                                    !.txOrder = <<row>>, !.order = <<row>>, !.idx = 1]
                /\ orderSeq' = orderSeq + 1
       ELSE /\ cr' = [cr EXCEPT !.pc = "catch", !.dbError = TRUE]
            /\ UNCHANGED orderSeq
  /\ UNCHANGED <<orders, order_items, nCreates>>
  /\ UNCHANGED Others

\* one iteration of `for (let item of validatedItems)`
InsertItem(ok) ==
  /\ cr.pc = "insertItems"
  /\ cr' = IF ok
             THEN [cr EXCEPT !.pc = IF cr.idx = Len(cr.validatedItems) THEN "commit" ELSE "insertItems",
                     !.idx = @ + 1,
                     !.txItems = Append(@, NewItemRow(cr.order[1], cr.validatedItems[cr.idx]))]
             ELSE [cr EXCEPT !.pc = "catch", !.dbError = TRUE]
  /\ UNCHANGED <<orders, order_items, orderSeq, nCreates>>
  /\ UNCHANGED Others

\* mutant: the handler goes on as if committed while the rows are not visible
Commit_Deferred(ok) ==
  /\ cr.pc = "commit"
  /\ cr' = IF ok
             THEN [cr EXCEPT !.pc = "fetch", !.tx = "committed"]
             ELSE [cr EXCEPT !.pc = "catch", !.dbError = TRUE]
  /\ UNCHANGED <<orders, order_items, orderSeq, nCreates>>
  /\ UNCHANGED Others

\* client.query('COMMIT'): the rows of the transaction become visible together
Commit(ok) ==
  /\ cr.pc = "commit"
  /\ IF ok
       THEN /\ orders' = orders @@ (cr.txOrder[1].id :> cr.txOrder[1])
            /\ order_items' = order_items \o cr.txItems
            /\ cr' = [cr EXCEPT !.pc = "fetch", !.tx = "committed", !.txOrder = <<>>, !.txItems = <<>>]
       ELSE /\ cr' = [cr EXCEPT !.pc = "catch", !.dbError = TRUE]
            /\ UNCHANGED <<orders, order_items>>
  /\ UNCHANGED <<orderSeq, nCreates>>
  /\ UNCHANGED Others

\* pool.query(SELECT items), order.items = rows, the 201, then finally
Fetch(ok) ==
  /\ cr.pc = "fetch"
  /\ cr' = IF ok
             THEN [cr EXCEPT !.pc = "done", !.client = "released",
                     !.res = Response(201, "", <<[order |-> cr.order[1],
                                                  items |-> SelectItems(cr.order[1].id)]>>)]
             ELSE [cr EXCEPT !.pc = "catch", !.dbError = TRUE]
  /\ UNCHANGED <<orders, order_items, orderSeq, nCreates>>
  /\ UNCHANGED Others

\* the outer catch: ROLLBACK, the 500, then finally.  A ROLLBACK that throws
\* leaves the handler through finally with no response sent.
Catch(ok) ==
  /\ cr.pc = "catch"
  /\ cr' = IF ok
             THEN [cr EXCEPT !.pc = "done", !.client = "released",
                     !.tx = IF @ = "open" THEN "rolledback" ELSE @,
                     !.txOrder = <<>>, !.txItems = <<>>,
                     !.res = Response(500, "Failed to create order", <<>>)]
             ELSE [cr EXCEPT !.pc = "done", !.client = "released", !.dbError = TRUE]
  /\ UNCHANGED <<orders, order_items, orderSeq, nCreates>>
  /\ UNCHANGED Others

\* ---- PUT /api/orders/:id/status --------------------------------------------
\* mutant: only a missing status is refused
StatusValid_NonEmpty(status) == status # ""

\* mutant: no status is refused
StatusValid_Any(status) == TRUE

\* mutant: one more status is let through
StatusValid_AlsoRefunded(status) ==
  status = "refunded" \/ \E i \in 1..Len(validStatuses) : validStatuses[i] = status

\* index.js:291
StatusValid(status) ==
  status # "" /\ \E i \in 1..Len(validStatuses) : validStatuses[i] = status

\* mutant: the update also resets created_at
UpdateRow_ResetsCreatedAt(row, status, ts) ==
  [row EXCEPT !.status = status, !.updated_at = ts, !.created_at = ts]

\* mutant: an order that reached delivered or cancelled keeps that status
UpdateRow_KeepsTerminal(row, status, ts) ==
  IF row.status \in {"delivered", "cancelled"}
    THEN [row EXCEPT !.updated_at = ts]
    ELSE [row EXCEPT !.status = status, !.updated_at = ts]

\* mutant: an order that is cancelled is left as it is
UpdateRow_KeepsCancelled(row, status, ts) ==
  IF row.status = "cancelled" THEN row ELSE [row EXCEPT !.status = status, !.updated_at = ts]

\* UPDATE orders SET status = $1, updated_at = CURRENT_TIMESTAMP WHERE id = $2
UpdateRow(row, status, ts) == [row EXCEPT !.status = status, !.updated_at = ts]

\* mutant: the UPDATE has no WHERE clause and rewrites every order
PutStatus_NoWhere(id, status, ok) ==
  /\ IF ~StatusValid(status)
       THEN /\ lastPut' = [n |-> lastPut.n + 1, code |-> 400, stmts |-> 0, data |-> <<>>]
            /\ UNCHANGED orders
     ELSE IF ~ok
       THEN /\ lastPut' = [n |-> lastPut.n + 1, code |-> 500, stmts |-> 1, data |-> <<>>]
            /\ UNCHANGED orders
     ELSE IF id \notin DOMAIN orders
       THEN /\ lastPut' = [n |-> lastPut.n + 1, code |-> 404, stmts |-> 1, data |-> <<>>]
            /\ UNCHANGED orders
       ELSE /\ orders' = [o \in DOMAIN orders |-> UpdateRow(orders[o], status, now)]
            /\ lastPut' = [n |-> lastPut.n + 1, code |-> 200, stmts |-> 1, data |-> <<orders'[id]>>]
  /\ UNCHANGED <<products, productSeq, order_items, orderSeq, now, cr, nCreates, rd, pu, pool, boot, services, gw>>

\* mutant: an update that matched no row is answered like one that did
PutStatus_NoNotFound(id, status, ok) ==
  /\ IF ~StatusValid(status)
       THEN /\ lastPut' = [n |-> lastPut.n + 1, code |-> 400, stmts |-> 0, data |-> <<>>]
            /\ UNCHANGED orders
     ELSE IF ~ok
       THEN /\ lastPut' = [n |-> lastPut.n + 1, code |-> 500, stmts |-> 1, data |-> <<>>]
            /\ UNCHANGED orders
     ELSE IF id \notin DOMAIN orders
       THEN /\ lastPut' = [n |-> lastPut.n + 1, code |-> 200, stmts |-> 1, data |-> <<>>]
            /\ UNCHANGED orders
       ELSE /\ orders' = [orders EXCEPT ![id] = UpdateRow(@, status, now)]
            /\ lastPut' = [n |-> lastPut.n + 1, code |-> 200, stmts |-> 1, data |-> <<orders'[id]>>]
  /\ UNCHANGED <<products, productSeq, order_items, orderSeq, now, cr, nCreates, rd, pu, pool, boot, services, gw>>

PutStatus(id, status, ok) ==
  /\ IF ~StatusValid(status)
       THEN /\ lastPut' = [n |-> lastPut.n + 1, code |-> 400, stmts |-> 0, data |-> <<>>]
            /\ UNCHANGED orders
     ELSE IF ~ok
       THEN /\ lastPut' = [n |-> lastPut.n + 1, code |-> 500, stmts |-> 1, data |-> <<>>]
            /\ UNCHANGED orders
     ELSE IF id \notin DOMAIN orders
       THEN /\ lastPut' = [n |-> lastPut.n + 1, code |-> 404, stmts |-> 1, data |-> <<>>]
            /\ UNCHANGED orders
       ELSE /\ orders' = [orders EXCEPT ![id] = UpdateRow(@, status, now)]
            /\ lastPut' = [n |-> lastPut.n + 1, code |-> 200, stmts |-> 1, data |-> <<orders'[id]>>]
  /\ UNCHANGED <<products, productSeq, order_items, orderSeq, now, cr, nCreates, rd, pu, pool, boot, services, gw>>

\* ---- GET /api/orders and GET /api/orders/:id ------------------------------
\* index.js:120-128: a parameter that is absent or empty adds no condition
Matches(row, status, email) ==
  /\ (status = "" \/ row.status = status)
  /\ (email = "" \/ row.customer_email = email)

\* mutant: oldest first
NewestFirst_Ascending(rows) ==
  \A j, k \in 1..Len(rows) : j < k => rows[j].created_at <= rows[k].created_at

\* ORDER BY created_at DESC
NewestFirst(rows) ==
  \A j, k \in 1..Len(rows) : j < k => rows[j].created_at >= rows[k].created_at

\* the results the SELECT over the committed orders can return: the matching
\* rows, each once, newest first; rows of equal created_at come in any order
SelectOrders(status, email) ==
  LET found == {orders[i] : i \in {o \in DOMAIN orders : Matches(orders[o], status, email)}}
  IN  {rows \in [1..Cardinality(found) -> found] :
         /\ \A j, k \in 1..Cardinality(found) : j # k => rows[j] # rows[k]
         /\ NewestFirst(rows)}

ReadStarts(kind) ==
  [IdleRead EXCEPT !.kind = kind, !.n = rd.n + 1,
     !.after = IF cr.pc = "done" /\ cr.res.code = 201 THEN cr.res.data ELSE <<>>]

NotRead ==
  <<products, productSeq, orders, order_items, orderSeq, now, cr, nCreates, lastPut,
    pu, pool, boot, services, gw>>

\* GET /api/orders: the SELECT over orders (index.js:116-132)
ListSelect(status, email, rows, ok) ==
  /\ rd.pc \in {"idle", "done"}
  /\ rows \in SelectOrders(status, email)
  /\ rd' = IF ~ok
             THEN [ReadStarts("list") EXCEPT !.pc = "done", !.status = status, !.email = email,
                     !.code = 500]
           ELSE IF Len(rows) = 0
             THEN [ReadStarts("list") EXCEPT !.pc = "done", !.status = status, !.email = email,
                     !.code = 200]
             ELSE [ReadStarts("list") EXCEPT !.pc = "items", !.status = status, !.email = email,
                     !.rows = rows, !.idx = 1]
  /\ UNCHANGED NotRead

\* one iteration of `for (let order of result.rows)`, the 200 after the last
ListItems(ok) ==
  /\ rd.pc = "items"
  /\ rd.kind = "list"
  /\ rd' = IF ~ok
             THEN [rd EXCEPT !.pc = "done", !.code = 500, !.out = <<>>]
             ELSE [rd EXCEPT !.pc = IF rd.idx = Len(rd.rows) THEN "done" ELSE "items",
                     !.code = IF rd.idx = Len(rd.rows) THEN 200 ELSE 0,
                     !.idx = @ + 1,
                     !.out = Append(@, [order |-> rd.rows[rd.idx],
                                        items |-> SelectItems(rd.rows[rd.idx].id)])]
  /\ UNCHANGED NotRead

\* GET /api/orders/:id: the SELECT of the order, the 404 (index.js:160-169)
GetSelect(id, ok) ==
  /\ rd.pc \in {"idle", "done"}
  /\ rd' = IF ~ok
             THEN [ReadStarts("get") EXCEPT !.pc = "done", !.id = id, !.code = 500]
           ELSE IF id \notin DOMAIN orders
             THEN [ReadStarts("get") EXCEPT !.pc = "done", !.id = id, !.code = 404]
             ELSE [ReadStarts("get") EXCEPT !.pc = "items", !.id = id, !.rows = <<orders[id]>>,
                     !.idx = 1]
  /\ UNCHANGED NotRead

\* the SELECT of its items and the 200 (index.js:171-182)
GetItems(ok) ==
  /\ rd.pc = "items"
  /\ rd.kind = "get"
  /\ rd' = IF ~ok
             THEN [rd EXCEPT !.pc = "done", !.code = 500]
             ELSE [rd EXCEPT !.pc = "done", !.code = 200,
                     !.out = <<[order |-> rd.rows[1], items |-> SelectItems(rd.id)]>>]
  /\ UNCHANGED NotRead

\* ---- PUT /api/orders/:id/status, several requests in flight ----------------
\* UPDATE statements the store has run for these requests
Applied == Cardinality({p \in DOMAIN pu : pu[p].at > 0})

NotRace ==
  <<products, productSeq, order_items, orderSeq, now, cr, nCreates, lastPut, rd,
    pool, boot, services, gw>>

\* the request arrives: the validation (index.js:287-296), then pool.query is
\* called and the handler awaits it
RaceStart(p, id, status) ==
  /\ pu[p].pc = "idle"
  /\ pu' = [pu EXCEPT ![p] =
             IF ~StatusValid(status)
               THEN [@ EXCEPT !.pc = "done", !.id = id, !.status = status, !.code = 400,
                              !.before = Applied]
               ELSE [@ EXCEPT !.pc = "sent", !.id = id, !.status = status,
                              !.before = Applied]]
  /\ UNCHANGED orders
  /\ UNCHANGED NotRace

\* the store runs the UPDATE ... RETURNING * of one request, a single statement
\* that holds the row lock while it runs, and the handler answers with its rows
\* (index.js:298-323)
RaceApply(p, ok) ==
  /\ pu[p].pc = "sent"
  /\ IF ~ok
       THEN /\ pu' = [pu EXCEPT ![p] = [@ EXCEPT !.pc = "done", !.code = 500]]
            /\ UNCHANGED orders
     ELSE IF pu[p].id \notin DOMAIN orders
       THEN /\ pu' = [pu EXCEPT ![p] = [@ EXCEPT !.pc = "done", !.code = 404,
                                                 !.at = Applied + 1]]
            /\ UNCHANGED orders
       ELSE /\ orders' = [orders EXCEPT ![pu[p].id] = UpdateRow(@, pu[p].status, now)]
            /\ pu' = [pu EXCEPT ![p] = [@ EXCEPT !.pc = "done", !.code = 200,
                                                 !.data = <<orders'[pu[p].id]>>,
                                                 !.at = Applied + 1]]
  /\ UNCHANGED NotRace

\* ---- the pg Pool shared by the handlers of the order service ---------------
NotPool ==
  <<products, productSeq, orders, order_items, orderSeq, now, cr, nCreates, lastPut, rd,
    pu, boot, services, gw>>

\* `const client = await pool.connect()` of a creation request (index.js:194):
\* a client is checked out when fewer than `max` are; otherwise the call waits
\* connectionTimeoutMillis and rejects
PoolConnect ==
  /\ IF pool.held < PoolMax
       THEN pool' = [pool EXCEPT !.held = @ + 1]
       ELSE /\ pool.refused < MaxQueries
            /\ pool' = [pool EXCEPT !.refused = @ + 1]
  /\ UNCHANGED NotPool

\* `client.release()` in the finally of a creation request (index.js:279-281),
\* reached once its lookups were answered
PoolRelease ==
  /\ pool.held > 0
  /\ pool' = [pool EXCEPT !.held = @ - 1]
  /\ UNCHANGED NotPool

\* `pool.query(...)` of a read or a status update (index.js:132, 162, 298): it
\* checks a client out for the statement; with every client held it waits
\* connectionTimeoutMillis, rejects, and the handler answers 500
PoolQuery ==
  /\ pool.n < MaxQueries
  /\ pool' = [pool EXCEPT !.n = @ + 1,
                          !.last = IF pool.held < PoolMax THEN "answered" ELSE "timeout"]
  /\ UNCHANGED NotPool

\* ---- product-service initDatabase -------------------------------------------
\* the VALUES of index.js:43-50, prices in cents
SampleProducts ==
  << [name |-> "Laptop Pro 15", price |-> 129999, stock |-> 50],
     [name |-> "Wireless Mouse", price |-> 2999, stock |-> 200],
     [name |-> "USB-C Hub", price |-> 4999, stock |-> 100],
     [name |-> "Mechanical Keyboard", price |-> 8999, stock |-> 75],
     [name |-> "4K Monitor 27\"", price |-> 39999, stock |-> 30] >>

\* `const { rowCount } = await pool.query('SELECT COUNT(*) FROM products')`:
\* rowCount is the number of rows of the result, and a COUNT(*) without GROUP BY
\* returns one row whatever the table holds
RowCountOfCount(table) == 1

\* the product service starts: initDatabase (index.js:24-59) over the table as
\* the last run left it
ProductInitDatabase ==
  /\ boot.n < MaxBoots
  /\ LET rowCount == RowCountOfCount(products)
     IN  /\ IF rowCount = 0
              THEN /\ products' = products @@
                        [i \in productSeq..(productSeq + Len(SampleProducts) - 1) |->
                           [id |-> i,
                            name |-> SampleProducts[i - productSeq + 1].name,
                            price |-> SampleProducts[i - productSeq + 1].price,
                            stock |-> SampleProducts[i - productSeq + 1].stock]]
                   /\ productSeq' = productSeq + Len(SampleProducts)
              ELSE UNCHANGED <<products, productSeq>>
         /\ boot' = [n |-> boot.n + 1, seen |-> products, inserted |-> (rowCount = 0)]
  /\ UNCHANGED <<orders, order_items, orderSeq, now, cr, nCreates, lastPut, rd,
                 pu, pool, services, gw>>

\* ---- api-gateway GET /health ------------------------------------------------
\* what a health probe meets at a service URL: a service answering 200, an
\* answer outside 2xx, no listener, or a listener that accepts and stays silent
ServiceStates == {"up", "erroring", "down", "hung"}

\* how axios.get(url, { timeout: 3000 }) ends against each: status 0 is no
\* HTTP response; timedOut is the 3000 ms timer ending the wait
ProbeOutcome(state) ==
  CASE state = "up" -> [status |-> 200, timedOut |-> FALSE]
    [] state = "erroring" -> [status |-> 502, timedOut |-> FALSE]
    [] state = "down" -> [status |-> 0, timedOut |-> FALSE]
    [] state = "hung" -> [status |-> 0, timedOut |-> TRUE]

\* mutant: one healthy service is enough
AllHealthy_Some(product, order) == product = "healthy" \/ order = "healthy"

\* Object.values(healthChecks.services).every(s => s === 'healthy')
AllHealthy(product, order) == product = "healthy" /\ order = "healthy"

NotGateway ==
  <<products, productSeq, orders, order_items, orderSeq, now, cr, nCreates, lastPut, rd,
    pu, pool, boot>>

\* a service starts, stops, hangs or starts to fail
ServiceChanges(name, state) ==
  /\ services[name] # state
  /\ services' = [services EXCEPT ![name] = state]
  /\ UNCHANGED gw
  /\ UNCHANGED NotGateway

\* the request arrives and the product probe ends (index.js:45-61)
HealthProbeProduct ==
  /\ gw.pc \in {"idle", "done"}
  /\ gw.n < MaxHealthChecks
  /\ LET outcome == ProbeOutcome(services.product)
     IN  gw' = [IdleHealth EXCEPT !.pc = "probeOrder", !.n = gw.n + 1,
                  !.product = IF Throws(outcome) THEN "unhealthy" ELSE "healthy",
                  !.probes = <<outcome>>]
  /\ UNCHANGED services
  /\ UNCHANGED NotGateway

\* the order probe ends and the handler answers (index.js:63-73)
HealthProbeOrder ==
  /\ gw.pc = "probeOrder"
  /\ LET outcome == ProbeOutcome(services.order)
         order == IF Throws(outcome) THEN "unhealthy" ELSE "healthy"
     IN  gw' = [gw EXCEPT !.pc = "done", !.order = order,
                  !.probes = Append(@, outcome),
                  !.code = IF AllHealthy(gw.product, order) THEN 200 ELSE 503]
  /\ UNCHANGED services
  /\ UNCHANGED NotGateway

\* ---- the system ------------------------------------------------------------
Next ==
  \/ Tick
  \/ \E name \in Names \cup {""}, price \in Prices \cup {0}, stock \in Stocks :
       CreateProduct(name, price, stock)
  \/ \E id \in 1..MaxProducts, name \in Names \cup {NullName}, price \in Prices \cup {NullPrice} :
       UpdateProduct(id, name, price)
  \/ \E id \in 1..MaxProducts : DeleteProduct(id)
  \/ \E body \in Bodies, ok \in BOOLEAN : Connect(body, ok)
  \/ \E ok \in BOOLEAN : Begin(ok)
  \/ \E ref \in RequestRefs : \E answer \in LookupAnswers(ref) : Lookup(answer)
  \/ LookupHangs
  \/ \E ok \in BOOLEAN : Reject(ok)
  \/ \E ok \in BOOLEAN : InsertOrder(ok)
  \/ \E ok \in BOOLEAN : InsertItem(ok)
  \/ \E ok \in BOOLEAN : Commit(ok)
  \/ \E ok \in BOOLEAN : Fetch(ok)
  \/ \E ok \in BOOLEAN : Catch(ok)
  \/ \E id \in 1..orderSeq, status \in PutStatuses, ok \in BOOLEAN :
       lastPut.n < MaxPuts /\ PutStatus(id, status, ok)

Spec == Init /\ [][Next]_vars

\* reads beside a creation and a status update of the order it created
NextRead ==
  \/ Tick
  \/ \E name \in Names, price \in Prices, stock \in Stocks : CreateProduct(name, price, stock)
  \/ \E body \in ReadBodies, ok \in BOOLEAN : Connect(body, ok)
  \/ \E ok \in BOOLEAN : Begin(ok)
  \/ \E ref \in RequestRefs : \E answer \in LookupAnswers(ref) : Lookup(answer)
  \/ LookupHangs
  \/ \E ok \in BOOLEAN : Reject(ok)
  \/ \E ok \in BOOLEAN : InsertOrder(ok)
  \/ \E ok \in BOOLEAN : InsertItem(ok)
  \/ \E ok \in BOOLEAN : Commit(ok)
  \/ \E ok \in BOOLEAN : Fetch(ok)
  \/ \E ok \in BOOLEAN : Catch(ok)
  \/ \E status \in StatusFilters, email \in EmailFilters, ok \in BOOLEAN :
       \E rows \in SelectOrders(status, email) :
         rd.n < MaxReads /\ ListSelect(status, email, rows, ok)
  \/ \E ok \in BOOLEAN : ListItems(ok)
  \/ \E id \in 1..orderSeq, ok \in BOOLEAN : rd.n < MaxReads /\ GetSelect(id, ok)
  \/ \E ok \in BOOLEAN : GetItems(ok)
  \/ \E id \in DOMAIN orders \ DOMAIN SampleOrders, ok \in BOOLEAN :
       lastPut.n < MaxPuts /\ PutStatus(id, "cancelled", ok)

SpecRead == Init /\ [][NextRead]_vars

\* catalog changes beside a creation and reads of single orders
NextSnapshot ==
  \/ \E name \in Names, price \in Prices, stock \in Stocks : CreateProduct(name, price, stock)
  \/ \E id \in 1..MaxProducts, name \in NewNames \cup {NullName}, price \in Prices \cup {NullPrice} :
       UpdateProduct(id, name, price)
  \/ \E id \in 1..MaxProducts : DeleteProduct(id)
  \/ \E body \in ReadBodies, ok \in BOOLEAN : Connect(body, ok)
  \/ \E ok \in BOOLEAN : Begin(ok)
  \/ \E ref \in RequestRefs : \E answer \in LookupAnswers(ref) : Lookup(answer)
  \/ LookupHangs
  \/ \E ok \in BOOLEAN : Reject(ok)
  \/ \E ok \in BOOLEAN : InsertOrder(ok)
  \/ \E ok \in BOOLEAN : InsertItem(ok)
  \/ \E ok \in BOOLEAN : Commit(ok)
  \/ \E ok \in BOOLEAN : Fetch(ok)
  \/ \E ok \in BOOLEAN : Catch(ok)
  \/ \E id \in 1..orderSeq, ok \in BOOLEAN : rd.n < MaxReads /\ GetSelect(id, ok)
  \/ \E ok \in BOOLEAN : GetItems(ok)

SpecSnapshot == Init /\ [][NextSnapshot]_vars

\* creations whose item quantity is any integer, beside reads of single orders
NextQuantity ==
  \/ Tick
  \/ \E name \in Names, price \in Prices, stock \in Stocks : CreateProduct(name, price, stock)
  \/ \E body \in QuantityBodies, ok \in BOOLEAN : Connect(body, ok)
  \/ \E ok \in BOOLEAN : Begin(ok)
  \/ \E ref \in RequestRefs : \E answer \in LookupAnswers(ref) : Lookup(answer)
  \/ LookupHangs
  \/ \E ok \in BOOLEAN : Reject(ok)
  \/ \E ok \in BOOLEAN : InsertOrder(ok)
  \/ \E ok \in BOOLEAN : InsertItem(ok)
  \/ \E ok \in BOOLEAN : Commit(ok)
  \/ \E ok \in BOOLEAN : Fetch(ok)
  \/ \E ok \in BOOLEAN : Catch(ok)
  \/ \E id \in 1..orderSeq, ok \in BOOLEAN : rd.n < MaxReads /\ GetSelect(id, ok)
  \/ \E ok \in BOOLEAN : GetItems(ok)

SpecQuantity == Init /\ [][NextQuantity]_vars

\* creation requests holding clients of the pool beside other requests
NextPool ==
  \/ PoolConnect
  \/ PoolRelease
  \/ PoolQuery

SpecPool == Init /\ [][NextPool]_vars

\* starts of the product service between changes of its table
NextBoot ==
  \/ \E name \in Names, price \in Prices, stock \in Stocks \cup {0} :
       CreateProduct(name, price, stock)
  \/ \E id \in 1..MaxProducts, name \in NewNames \cup {NullName}, price \in Prices \cup {NullPrice} :
       UpdateProduct(id, name, price)
  \/ \E id \in 1..MaxProducts : DeleteProduct(id)
  \/ ProductInitDatabase

SpecBoot == Init /\ [][NextBoot]_vars

\* the gateway's health endpoint over services that come and go
NextGateway ==
  \/ \E name \in {"product", "order"}, state \in ServiceStates : ServiceChanges(name, state)
  \/ HealthProbeProduct
  \/ HealthProbeOrder

SpecGateway == Init /\ [][NextGateway]_vars

\* status updates in flight at once
NextRace ==
  \/ Tick
  \/ \E p \in 1..MaxRacers, id \in 1..orderSeq, status \in RaceStatuses : RaceStart(p, id, status)
  \/ \E p \in 1..MaxRacers, ok \in BOOLEAN : RaceApply(p, ok)

SpecRace == Init /\ [][NextRace]_vars

\* the status-update handler alone, over the orders of initDatabase
NextStatus ==
  \/ Tick
  \/ \E id \in 1..orderSeq, status \in PutStatuses, ok \in BOOLEAN :
       lastPut.n < MaxStatusPuts /\ PutStatus(id, status, ok)

SpecStatus == Init /\ [][NextStatus]_vars

\* ---- properties ------------------------------------------------------------
KnownStatuses == {"pending", "processing", "shipped", "delivered", "cancelled"}

RECURSIVE SumLines(_)
SumLines(rows) ==
  IF rows = <<>> THEN 0
  ELSE Head(rows).price * Head(rows).quantity + SumLines(Tail(rows))

\* what GET /api/orders and GET /api/orders/:id can show of a request: rows
\* that were not in the tables when it arrived
NoTrace ==
  /\ DOMAIN orders = cr.pre.orders
  /\ Len(order_items) = cr.pre.nitems

\* a product id the catalog has never held (products_id_seq has not reached it)
NeverInCatalog(ref) == ref.route = "product" /\ ref.n >= productSeq

AsksMissingProduct ==
  \E k \in 1..Len(cr.body.items) : NeverInCatalog(cr.body.items[k].product_id)

C2_NoRowsUnless201 ==
  (cr.pc = "done" /\ cr.res.code \in {400, 500} /\ cr.tx # "none") =>
    /\ cr.tx = "rolledback"
    /\ NoTrace

\* C3: an order committed by a creation request has one item row for every
\* item of the request: no requested item is dropped.
C3_AllItemsOrNothing ==
  (cr.tx = "committed") =>
    Len(SelectItems(cr.order[1].id)) = Len(cr.body.items)

\* C4: the order returned with a 201 has a total equal to the sum of price x
\* quantity over its returned items, and each returned item carries the price
\* the catalog answered at its lookup during this creation.
C4_TotalIsSumOfLines ==
  (cr.pc = "done" /\ cr.res.code = 201) =>
    LET data == cr.res.data[1]
    IN  /\ data.order.total_amount = SumLines(data.items)
        /\ Len(data.items) = Len(cr.quoted)
        /\ \A k \in 1..Len(data.items) : data.items[k].price = cr.quoted[k]

\* a 201 for two items of one product whose price changed between the lookups
C4_Witness ==
  /\ cr.pc = "done"
  /\ cr.res.code = 201
  /\ Len(cr.res.data[1].items) = 2
  /\ cr.res.data[1].items[1].price # cr.res.data[1].items[2].price
  /\ cr.res.data[1].items[2].quantity = 2

\* C5: every stored order's total_amount is the sum of price x quantity over
\* its order_items rows.
C5_StoredTotalIsSum ==
  \A id \in DOMAIN orders : orders[id].total_amount = SumLines(SelectItems(id))

\* C6: a creation request without customer name, without customer email or
\* without items issues no catalog lookup, opens no transaction and writes no
\* row; the only answer it gets is the 400.
C6_RejectedBeforeLookup ==
  ( /\ cr.pc # "idle"
    /\ \/ cr.body.customer_name = ""
       \/ cr.body.customer_email = ""
       \/ ~cr.body.items_given
       \/ cr.body.items = <<>> ) =>
    /\ cr.lookups = 0
    /\ cr.tx = "none"
    /\ cr.txOrder = <<>> /\ cr.txItems = <<>>
    /\ NoTrace
    /\ cr.pc = "done"
    /\ cr.res.code \in {0, 400}
    /\ (~cr.dbError => cr.res.code = 400)

\* only the email is missing; the items name an existing product
C6_Witness ==
  /\ cr.pc = "done"
  /\ cr.body.customer_name # ""
  /\ cr.body.customer_email = ""
  /\ Len(cr.body.items) = 1
  /\ cr.body.items[1].product_id.route = "product"
  /\ cr.body.items[1].product_id.n \in DOMAIN products
  /\ cr.res.code = 400

\* C7: an order row that becomes visible is in status pending.
C7_CreatedPending ==
  [][\A id \in DOMAIN orders' \ DOMAIN orders : orders'[id].status = "pending"]_vars

\* a created order is visible
C7_Witness ==
  \E id \in DOMAIN orders : id \notin DOMAIN SampleOrders /\ orders[id].status = "pending"

\* C8: a status update whose status is missing or unknown is answered 400
\* without a statement sent to the store, and no order and no item changes,
\* whether the order id exists or not.
C8_UnknownStatusRejected ==
  [][\A id \in 1..orderSeq, status \in PutStatuses \ KnownStatuses, ok \in BOOLEAN :
       PutStatus(id, status, ok) =>
         /\ lastPut'.code = 400
         /\ lastPut'.stmts = 0
         /\ orders' = orders
         /\ order_items' = order_items]_vars

C8_Witness == lastPut.code = 400 /\ lastPut.stmts = 0 /\ lastPut.n > 0

\* (checked under SpecStatus)
\* C9 as stated: a status update to the order's current status, the store
\* answering, is a 200 and leaves the stored order as it was.
C9_SameStatusNoOp ==
  [][\A id \in DOMAIN orders, status \in KnownStatuses :
       (PutStatus(id, status, TRUE) /\ orders[id].status = status) =>
         /\ lastPut'.code = 200
         /\ orders' = orders]_vars

\* C9 amended: ... leaves the stored order as it was but for updated_at, which
\* becomes the time of the call; the answer is the 200 with that row, so a
\* repeated call meets the same status again and succeeds the same way.
C9_SameStatusKeepsAllButUpdatedAt ==
  [][\A id \in DOMAIN orders, status \in KnownStatuses :
       (PutStatus(id, status, TRUE) /\ orders[id].status = status) =>
         /\ lastPut'.code = 200
         /\ DOMAIN orders' = DOMAIN orders
         /\ \A o \in DOMAIN orders \ {id} : orders'[o] = orders[o]
         /\ orders'[id].id = orders[id].id
         /\ orders'[id].customer_name = orders[id].customer_name
         /\ orders'[id].customer_email = orders[id].customer_email
         /\ orders'[id].status = orders[id].status
         /\ orders'[id].total_amount = orders[id].total_amount
         /\ orders'[id].created_at = orders[id].created_at
         /\ orders'[id].updated_at = now
         /\ lastPut'.data = <<orders'[id]>>
         /\ order_items' = order_items]_vars

\* two updates handled, sample order 2 still shipped as it started and
\* rewritten by the last one, after the clock moved
C9_Witness ==
  /\ lastPut.n = 2
  /\ lastPut.code = 200
  /\ lastPut.data = <<orders[2]>>
  /\ orders[2].status = "shipped"
  /\ orders[2].updated_at > orders[2].created_at

TransitionTable ==
  { <<"pending", "processing">>, <<"processing", "shipped">>, <<"shipped", "delivered">>,
    <<"pending", "cancelled">>, <<"processing", "cancelled">>, <<"shipped", "cancelled">> }

\* C10 as stated: every change of a stored status follows the transition table.
C10_FollowsTransitionTable ==
  [][\A id \in DOMAIN orders \cap DOMAIN orders' :
       orders'[id].status # orders[id].status =>
         <<orders[id].status, orders'[id].status>> \in TransitionTable]_vars

\* C10 amended: every change of a stored status is made by a status update
\* answered 200 and sets it to one of the five known statuses; any known status
\* can replace any other.
C10_ChangeIsAcceptedUpdate ==
  [][\A id \in DOMAIN orders \cap DOMAIN orders' :
       orders'[id].status # orders[id].status =>
         /\ orders'[id].status \in KnownStatuses
         /\ lastPut'.n = lastPut.n + 1
         /\ lastPut'.code = 200
         /\ lastPut'.data = <<orders'[id]>>]_vars

\* sample order 1 has left delivered for pending
C10_Witness == orders[1].status = "pending"

\* C11: with the store answering, a status update naming an existing order and
\* any of the five known statuses is answered 200 and the stored status becomes
\* the target, whatever the current status is (delivered or cancelled included).
C11_AnyKnownTargetAccepted ==
  [][\A id \in DOMAIN orders, status \in KnownStatuses :
       PutStatus(id, status, TRUE) =>
         /\ lastPut'.code = 200
         /\ orders'[id].status = status
         /\ lastPut'.data = <<orders'[id]>>]_vars

\* sample order 1, delivered at the start, was last moved back to processing
C11_Witness ==
  /\ lastPut.code = 200
  /\ lastPut.data = <<orders[1]>>
  /\ orders[1].status = "processing"

\* C17: with the store answering, a status update with a known status on an
\* order id the store does not hold is answered 404, and it neither creates nor
\* changes any order row or item row.
C17_UnknownOrderNotFound ==
  [][\A id \in (1..orderSeq) \ DOMAIN orders, status \in KnownStatuses :
       PutStatus(id, status, TRUE) =>
         /\ lastPut'.code = 404
         /\ lastPut'.data = <<>>
         /\ orders' = orders
         /\ order_items' = order_items]_vars

\* an update reached the store, matched no row and left the sample orders alone
C17_Witness ==
  /\ lastPut.code = 404
  /\ lastPut.stmts = 1
  /\ orders = SampleOrders

\* the steps the handler of POST /api/orders can take once the request arrived
RequestStep ==
  \/ \E ok \in BOOLEAN : Begin(ok)
  \/ \E ref \in RequestRefs : \E answer \in LookupAnswers(ref) : Lookup(answer)
  \/ LookupHangs
  \/ \E ok \in BOOLEAN : Reject(ok)
  \/ \E ok \in BOOLEAN : InsertOrder(ok)
  \/ \E ok \in BOOLEAN : InsertItem(ok)
  \/ \E ok \in BOOLEAN : Commit(ok)
  \/ \E ok \in BOOLEAN : Fetch(ok)
  \/ \E ok \in BOOLEAN : Catch(ok)

\* C12: a creation request never waits forever: while it has not ended, a
\* further step of its handler is possible (a lookup the catalog leaves
\* unanswered is ended by a timeout), so it goes on to answer and to end its
\* transaction.
C12_CreationNeverStuck ==
  (cr.pc \notin {"idle", "done"}) => ENABLED RequestStep

IsSuccessStatus(status) == status >= 200 /\ status < 300

\* C13: a creation rejected with the 400 that says the product was not found
\* was rejected because the catalog answered 404 for it; a rejection because the
\* catalog was unreachable or answered 5xx reads differently.
C13_NotFoundDistinctFromUnavailable ==
  (cr.pc = "done" /\ cr.res.code = 400 /\ cr.lookups > 0) =>
    (cr.res.error = "Product not found" <=> cr.answers[Len(cr.answers)] = 404)

\* C14: a creation request that ended was answered 201, 400 or 500, on every
\* path, store failures included.
C14_AlwaysAnswered ==
  (cr.pc = "done") => cr.res.code \in {201, 400, 500}

\* C16: lookups are made one at a time in request order and stop at the first
\* one that fails (no 2xx answer): every earlier lookup was answered 2xx, no
\* later item is looked up, and the 400 names the product id of that item.
C16_NamesFirstFailedLookup ==
  (Len(cr.answers) > 0 /\ ~IsSuccessStatus(cr.answers[Len(cr.answers)])) =>
    /\ cr.pc \in {"reject", "catch", "done"}
    /\ cr.lookups = Len(cr.answers)
    /\ cr.lookups <= Len(cr.body.items)
    /\ \A k \in 1..(cr.lookups - 1) : IsSuccessStatus(cr.answers[k])
    /\ (cr.pc = "done" /\ cr.res.code = 400) =>
          cr.res.data = <<cr.body.items[cr.lookups].product_id>>

\* the first item resolved, the second, another product, met a 500: the 400
\* names the second
C16_Witness ==
  /\ cr.pc = "done"
  /\ cr.res.code = 400
  /\ cr.answers = <<200, 500>>
  /\ cr.body.items[1].product_id # cr.body.items[2].product_id
  /\ cr.res.data = <<cr.body.items[2].product_id>>

\* the item rows an order was committed with: those of initDatabase for a sample
\* order, one per validated item for the order of the creation request
ExpectedItems(id) ==
  IF id \in DOMAIN SampleOrders
    THEN SelectSeq(SampleOrderItems, LAMBDA r : r.order_id = id)
    ELSE [k \in 1..Len(cr.validatedItems) |-> NewItemRow(cr.order[1], cr.validatedItems[k])]

IsCreated(id) == cr.order # <<>> /\ cr.order[1].id = id

\* C15: whatever the interleaving of a creation with a list or a get-by-id,
\* every order a read has selected is committed, and every order it has put
\* together carries all the item rows committed with it.
C15_ReadsSeeCommittedWholeOrders ==
  /\ \A k \in 1..Len(rd.rows) :
        /\ rd.rows[k].id \in DOMAIN orders
        /\ IsCreated(rd.rows[k].id) => cr.tx = "committed"
  /\ \A k \in 1..Len(rd.out) :
        LET id == rd.out[k].order.id
        IN  (id \in DOMAIN SampleOrders \/ IsCreated(id)) =>
              rd.out[k].items = ExpectedItems(id)

\* a list that began before the creation was answered returned the new order
\* with both its items
C15_Witness ==
  /\ rd.pc = "done" /\ rd.kind = "list" /\ rd.code = 200
  /\ rd.after = <<>>
  /\ \E k \in 1..Len(rd.out) :
        IsCreated(rd.out[k].order.id) /\ Len(rd.out[k].items) = 2

\* C18: a read that began after a creation was answered 201 and that the store
\* answered: a get-by-id of the created id returns 200 with that order, its
\* items and its total as the 201 gave them, the status too unless a status
\* update was handled; an unfiltered list contains it with the same items.
C18_ReadYourWrites ==
  (rd.pc = "done" /\ rd.after # <<>> /\ rd.code # 500) =>
    LET created == rd.after[1]
    IN  /\ (rd.kind = "get" /\ rd.id = created.order.id) =>
              /\ rd.code = 200
              /\ rd.out[1].items = created.items
              /\ rd.out[1].order.total_amount = created.order.total_amount
              /\ \/ rd.out[1].order = created.order
                 \/ /\ lastPut.n > 0
                    /\ rd.out[1].order =
                         [created.order EXCEPT !.status = rd.out[1].order.status,
                                               !.updated_at = rd.out[1].order.updated_at]
        /\ (rd.kind = "list" /\ rd.status = "" /\ rd.email = "") =>
              \E k \in 1..Len(rd.out) :
                /\ rd.out[k].order.id = created.order.id
                /\ rd.out[k].items = created.items
                /\ rd.out[k].order.total_amount = created.order.total_amount

\* a get-by-id after the 201 returned the order, cancelled meanwhile, with the
\* two items of the 201
C18_Witness ==
  /\ rd.pc = "done" /\ rd.kind = "get" /\ rd.code = 200
  /\ rd.after # <<>>
  /\ rd.id = rd.after[1].order.id
  /\ Len(rd.out[1].items) = 2
  /\ rd.out[1].order.status = "cancelled"

\* the response of a list: the selected orders in the selected order, each with
\* the item rows of its id
ListCarriesItems ==
  (rd.pc = "done" /\ rd.kind = "list" /\ rd.code = 200) =>
    /\ Len(rd.out) = Len(rd.rows)
    /\ \A k \in 1..Len(rd.out) :
          /\ rd.out[k].order = rd.rows[k]
          /\ rd.out[k].items = SelectSeq(order_items, LAMBDA r : r.order_id = rd.rows[k].id)

\* C19: the SELECT of a list returns each committed order that meets every
\* filter given (status, customer email; "" is no filter) exactly once and no
\* other row, no row standing before one of a later created_at; the response
\* carries these orders in that order, each with its items.
C19_ListIsExactAndNewestFirst ==
  [][/\ (rd'.n = rd.n + 1 /\ rd'.kind = "list" /\ rd'.code # 500) =>
          LET rows == rd'.rows
              wanted == {orders[i] : i \in {o \in DOMAIN orders :
                           /\ rd'.status # "" => orders[o].status = rd'.status
                           /\ rd'.email # "" => orders[o].customer_email = rd'.email}}
          IN  /\ {rows[k] : k \in 1..Len(rows)} = wanted
              /\ Len(rows) = Cardinality(wanted)
              /\ \A j, k \in 1..Len(rows) :
                    j < k => ~(rows[j].created_at < rows[k].created_at)
     /\ ListCarriesItems']_vars

\* a list filtered by status pending returned the created order, of a later
\* created_at, before sample order 3, each with its items
C19_Witness ==
  /\ rd.pc = "done" /\ rd.kind = "list" /\ rd.code = 200
  /\ rd.status = "pending" /\ rd.email = ""
  /\ Len(rd.out) = 2
  /\ rd.out[1].order.created_at > rd.out[2].order.created_at
  /\ Len(rd.out[1].items) = 2
  /\ rd.out[2].order.id = 3

\* C20: the items of a created order keep the product name and price the
\* catalog answered at its lookups, and the order keeps the total computed
\* from them, whatever update or deletion the product meets afterwards; a
\* get-by-id returns these values, not those of the catalog.
C20_SnapshotFrozen ==
  /\ (cr.tx = "committed") =>
        LET id == cr.order[1].id
            items == SelectSeq(order_items, LAMBDA r : r.order_id = id)
        IN  /\ orders[id].total_amount = cr.total
            /\ Len(items) = Len(cr.validatedItems)
            /\ \A k \in 1..Len(items) :
                  /\ items[k].product_name = cr.validatedItems[k].product_name
                  /\ items[k].price = cr.validatedItems[k].price
  /\ (rd.pc = "done" /\ rd.kind = "get" /\ rd.code = 200 /\ IsCreated(rd.id)) =>
        /\ rd.out[1].order.total_amount = cr.total
        /\ Len(rd.out[1].items) = Len(cr.validatedItems)
        /\ \A k \in 1..Len(cr.validatedItems) :
              /\ rd.out[1].items[k].product_name = cr.validatedItems[k].product_name
              /\ rd.out[1].items[k].price = cr.validatedItems[k].price

\* a get-by-id returned the created order with the name and price of its lookup
\* after the product was renamed and repriced
C20_Witness ==
  /\ rd.pc = "done" /\ rd.kind = "get" /\ rd.code = 200 /\ IsCreated(rd.id)
  /\ 1 \in DOMAIN products
  /\ rd.out[1].items[1].product_name # products[1].name
  /\ rd.out[1].items[1].price # products[1].price

\* C21: every committed item row has a quantity that is a positive integer, so
\* a creation request with a zero or negative quantity leaves no order.
C21_QuantitiesPositive ==
  \A k \in 1..Len(order_items) : order_items[k].quantity > 0

\* C22: no step of a creation request changes the catalog, and a lookup that
\* the catalog answers with the product resolves the item and lets the request
\* go on even when the quantity asked exceeds the product's stock.
C22_CreationOnlyReadsCatalog ==
  [][/\ (cr' # cr) => (products' = products /\ productSeq' = productSeq)
     /\ \A answer \in UNION {LookupAnswers(ref) : ref \in RequestRefs} :
          (/\ Lookup(answer)
           /\ answer.success
           /\ answer.data[1].stock < cr.body.items[cr.idx].quantity) =>
             /\ cr'.pc \in {"lookup", "insertOrder"}
             /\ Len(cr'.validatedItems) = Len(cr.validatedItems) + 1]_vars

\* a request for two units of a product with one in stock was answered 201 and
\* the stock is still one
C22_Witness ==
  /\ cr.pc = "done" /\ cr.res.code = 201
  /\ Len(cr.res.data[1].items) >= 1
  /\ cr.res.data[1].items[1].quantity = 2
  /\ cr.res.data[1].items[1].product_id \in DOMAIN products
  /\ products[cr.res.data[1].items[1].product_id].stock = 1

\* C24: in every step each stored order stays stored with the item rows it
\* had; it changes only in a step that is a status update answered 200 for
\* that order, and then only in status and updated_at.
C24_UpdateTouchesStatusOnly ==
  [][\A id \in DOMAIN orders :
       /\ id \in DOMAIN orders'
       /\ SelectSeq(order_items', LAMBDA r : r.order_id = id)
            = SelectSeq(order_items, LAMBDA r : r.order_id = id)
       /\ \/ orders'[id] = orders[id]
          \/ /\ lastPut'.n = lastPut.n + 1
             /\ lastPut'.code = 200
             /\ lastPut'.data = <<orders'[id]>>
             /\ orders'[id] = [orders[id] EXCEPT !.status = orders'[id].status,
                                                 !.updated_at = orders'[id].updated_at]]_vars

\* sample order 2 was cancelled beside a committed creation; the other sample
\* orders and the five sample item rows are as initDatabase wrote them
C24_Witness ==
  /\ lastPut.code = 200
  /\ orders[2].status = "cancelled"
  /\ orders[1] = SampleOrders[1] /\ orders[3] = SampleOrders[3]
  /\ cr.tx = "committed"
  /\ SubSeq(order_items, 1, Len(SampleOrderItems)) = SampleOrderItems

\* C26: every stored order has one of the five known statuses.
C26_StatusAlwaysKnown ==
  \A id \in DOMAIN orders : orders[id].status \in KnownStatuses

\* an update with an unknown status was refused beside a created order
C26_Witness ==
  /\ lastPut.code = 400
  /\ lastPut.stmts = 0
  /\ \E id \in DOMAIN orders \ DOMAIN SampleOrders : orders[id].status = "pending"

\* C27: a creation request that obtained a connection and ended has released
\* it, and a released connection has no transaction left open: the BEGIN was
\* followed by a COMMIT or a ROLLBACK that succeeded.
C27_ReleasedAfterTxEnds ==
  /\ (cr.pc = "done" /\ cr.client # "none") => cr.client = "released"
  /\ (cr.client = "released") => cr.tx # "open"

\* C23: of the status updates in flight at once that the store ran on one
\* order, each is answered 200 with the row carrying the status it wrote
\* itself, the order is still stored, and its stored status is the target of
\* the update the store ran last.
C23_LastWriteWins ==
  \A p \in DOMAIN pu :
    (pu[p].pc = "done" /\ pu[p].at > 0 /\ pu[p].id \in DOMAIN SampleOrders) =>
      /\ pu[p].code = 200
      /\ pu[p].data[1].id = pu[p].id
      /\ pu[p].data[1].status = pu[p].status
      /\ pu[p].id \in DOMAIN orders
      /\ (\A q \in DOMAIN pu : (pu[q].id = pu[p].id /\ pu[q].pc = "done") => pu[q].at <= pu[p].at)
            => orders[pu[p].id].status = pu[p].status

\* two updates of sample order 1 were both in flight before the store ran
\* either; the store ran the second caller's first; both got their own status
\* back and the order has the first caller's
C23_Witness ==
  /\ pu[1].pc = "done" /\ pu[2].pc = "done"
  /\ pu[1].id = 1 /\ pu[2].id = 1
  /\ pu[1].before = 0 /\ pu[2].before = 0
  /\ pu[2].at = 1 /\ pu[1].at = 2
  /\ pu[1].status = "processing" /\ pu[2].status = "cancelled"
  /\ pu[1].data[1].status = "processing" /\ pu[2].data[1].status = "cancelled"
  /\ orders[1].status = "processing"

\* C25: whatever the number of creation requests in progress, the statement of
\* a concurrent read or status update gets a connection and is answered.
C25_PoolNeverExhausted ==
  pool.last # "timeout"

\* C28: a start of the product service has inserted the sample products if and
\* only if it found the products table empty.
C28_SamplesIffEmpty ==
  (boot.n > 0) => (boot.inserted <=> DOMAIN boot.seen = {})

\* the probe was answered 2xx before the timeout
ProbeSucceeded(outcome) == IsSuccessStatus(outcome.status) /\ ~outcome.timedOut

\* C29: a health request of the gateway that has made its first probe can
\* always make the second and answer; its answer is 200 when both probes were
\* answered 2xx within the timeout and 503 otherwise, and it reports a service
\* unhealthy exactly when its probe failed or timed out.
C29_HealthReflectsProbes ==
  /\ (gw.pc = "probeOrder") => ENABLED HealthProbeOrder
  /\ (gw.pc = "done") =>
        /\ gw.code \in {200, 503}
        /\ gw.code = 200 <=> (ProbeSucceeded(gw.probes[1]) /\ ProbeSucceeded(gw.probes[2]))
        /\ gw.product = (IF ProbeSucceeded(gw.probes[1]) THEN "healthy" ELSE "unhealthy")
        /\ gw.order = (IF ProbeSucceeded(gw.probes[2]) THEN "healthy" ELSE "unhealthy")

\* the product service answered, the order service stayed silent until the
\* timeout: 503 with order unhealthy
C29_Witness ==
  /\ gw.pc = "done" /\ gw.code = 503
  /\ gw.probes[1].status = 200
  /\ gw.probes[2].timedOut
  /\ gw.product = "healthy" /\ gw.order = "unhealthy"

====
